---- MODULE Spec2Model ----
(***************************************************************************)
(* Model of streamlit_app/app.py: the Instacart dashboard script.          *)
(*                                                                         *)
(* The script is re-executed top to bottom on every sidebar interaction.   *)
(* One run is the chain  load -> merge -> sidebar -> filter -> metrics ->  *)
(* tabs -> done; load_data, prepare_merged and filter_data are memoized by *)
(* st.cache_data on their arguments.  An uncaught exception ends the run.  *)
(***************************************************************************)
EXTENDS Integers, Sequences, FiniteSets, TLC

VARIABLES
    db,             \* instacart.db: [file, tables]
    ties,           \* the order the build's sort leaves equal keys in
    load_cache,     \* st.cache_data store of load_data:      key -> value
    merge_cache,    \* st.cache_data store of prepare_merged: key -> value
    filter_cache,   \* st.cache_data store of filter_data:    key -> value
    products, orders, order_products, departments,   \* script globals, line 36
    merged,         \* script global, line 47
    filtered_df,    \* script global, line 61
    top_n, selected_dept, hour_range,                \* widget values
    dept_options,   \* options offered by the selectbox in the last run
    out,            \* elements rendered by the current run: label -> value
    exception,      \* the uncaught exception that ended the run, or None
    pc,             \* position of the script run
    runs            \* number of script runs started in this session

vars == <<db, ties, load_cache, merge_cache, filter_cache, products, orders,
          order_products, departments, merged, filtered_df, top_n,
          selected_dept, hour_range, dept_options, out, exception, pc, runs>>

---------------------------------------------------------------------------
(* Bounds of the model *)

\* order_products rows of a data source of the session specification
MaxRows == 3
\* script runs in one session (the first run and the reruns)
MaxRuns == 3
\* order_products rows of a data source of the join specification
MaxFactRows == 2
\* rows of each dimension table of a data source of the join specification
MaxDimRows == 2
\* order_products rows of a data source of the top-N specification
MaxTopRows == 7

---------------------------------------------------------------------------
(* Values *)

\* Python's None: no selection, no exception, a variable not yet assigned
None == "None"

Max(a, b) == IF a >= b THEN a ELSE b
Min(a, b) == IF a <= b THEN a ELSE b

\* the concatenation of the sequences f(s[1]), ..., f(s[Len(s)])
RECURSIVE FlatMap(_, _)
FlatMap(f(_), s) ==
    IF s = <<>> THEN <<>> ELSE f(Head(s)) \o FlatMap(f, Tail(s))

\* the set of elements of a sequence
Range(s) == {s[i] : i \in 1..Len(s)}

\* sequences over S of length at most n
SeqsUpTo(S, n) == UNION {[1..k -> S] : k \in 0..n}

---------------------------------------------------------------------------
(* The data source: the four tables of instacart.db (lines 27-31) *)

TableNames == {"products", "orders", "order_products__prior", "departments"}

ProductIds == 10..17
ProductNames ==
    (10 :> "Bananas") @@ (11 :> "Milk") @@ (12 :> "Apples") @@ (13 :> "Beans")
    @@ (14 :> "Kale") @@ (15 :> "Leeks") @@ (16 :> "Limes") @@ (17 :> "Pears")
\* the department of each product: 11 (Milk) is dairy, the others are produce
ProductDept == [p \in ProductIds |-> IF p = 11 THEN 2 ELSE 1]
DepartmentNames == (1 :> "produce") @@ (2 :> "dairy")
\* the hour of each order: order 1 at 9, order 2 at 15, later orders at 9
OrderHour == [o \in 1..(MaxTopRows + 1) |-> IF o = 2 THEN 15 ELSE 9]
OrderDow == [o \in 1..(MaxTopRows + 1) |-> IF o = 2 THEN 1 ELSE 0]

ProductRow(p) ==
    [product_id |-> p, product_name |-> ProductNames[p],
     department_id |-> ProductDept[p]]
OrderRow(o) ==
    [order_id |-> o, order_hour_of_day |-> OrderHour[o], order_dow |-> OrderDow[o]]
DepartmentRow(d) == [department_id |-> d, department |-> DepartmentNames[d]]
FactRow(o, p, r) == [order_id |-> o, product_id |-> p, reordered |-> r]

\* one row per (order, product) pair (data model of order_products__prior)
PairsDistinct(t) ==
    \A i, j \in 1..Len(t) :
        (t[i].order_id = t[j].order_id /\ t[i].product_id = t[j].product_id)
            => i = j

FactTables(rows, n) == {t \in SeqsUpTo(rows, n) : PairsDistinct(t)}

DataSource(file, present, p, o, op, d) ==
    [file |-> file,
     tables |-> [n \in present |->
                    CASE n = "products" -> p
                      [] n = "orders" -> o
                      [] n = "order_products__prior" -> op
                      [] n = "departments" -> d]]

\* Data sources of the session specification: products 10 and 11, orders 1
\* and 2, both departments, every order_products table of at most MaxRows
\* rows; and the sources load_data cannot read: no file, a file that cannot
\* be opened, a file that is no database, a database lacking tables.
SessionFacts(n) ==
    FactTables({FactRow(o, p, r) : o \in 1..2, p \in 10..11, r \in 0..1}, n)

SessionTables(op) ==
    DataSource("ok", TableNames, <<ProductRow(10), ProductRow(11)>>,
               <<OrderRow(1), OrderRow(2)>>, op,
               <<DepartmentRow(1), DepartmentRow(2)>>)

Fixture ==
    SessionTables(<<FactRow(1, 10, 1), FactRow(1, 11, 0), FactRow(2, 10, 1)>>)

BrokenSources ==
    {[file |-> f, tables |-> <<>>] : f \in {"missing", "unreadable", "corrupt"}}
    \cup {[file |-> "ok", tables |-> [n \in present |-> Fixture.tables[n]]] :
            present \in (SUBSET TableNames) \ {TableNames}}

SessionSources(n) ==
    {SessionTables(op) : op \in SessionFacts(n)} \cup BrokenSources

\* Data sources of the join specification: every choice of at most nf
\* order_products rows (product 10 reordered, product 11 not) and at most
\* nd rows in each of products, orders and departments, so that foreign
\* keys may have no row (orphans) and keys may repeat.
JoinSources(nf, nd) ==
    {DataSource("ok", TableNames, p, o, op, d) :
        p \in SeqsUpTo({ProductRow(10), ProductRow(11)}, nd),
        o \in SeqsUpTo({OrderRow(1), OrderRow(2)}, nd),
        op \in FactTables({FactRow(o, p, 11 - p) : o \in 1..2, p \in 10..11},
                          nf),
        d \in SeqsUpTo({DepartmentRow(1), DepartmentRow(2)}, nd)}

\* Data sources of the top-N specification: seven products of department
\* produce, and every order_products table of at most n reordered rows in
\* which the products first appear in the order of TopIds (any
\* table over these products is one of these up to renaming the products).
\* The k-th row of a product belongs to order k.
TopIds == <<10, 12, 13, 14, 15, 16, 17>>

\* the highest element of a sequence of positive integers, 0 when empty
RECURSIVE Highest(_)
Highest(s) == IF s = <<>> THEN 0 ELSE Max(Head(s), Highest(Tail(s)))

\* the sequences of n indices into TopIds in which index k + 1 appears only
\* after index k
RECURSIVE Growth(_)
Growth(n) ==
    IF n = 0 THEN {<<>>}
    ELSE UNION {{Append(s, k) : k \in 1..Min(Highest(s) + 1, Len(TopIds))} :
                    s \in Growth(n - 1)}

TopFacts(s) ==
    [i \in 1..Len(s) |->
        FactRow(Cardinality({j \in 1..i : s[j] = s[i]}), TopIds[s[i]], 1)]

TopSources(n) ==
    {DataSource("ok", TableNames,
                [i \in 1..Len(TopIds) |-> ProductRow(TopIds[i])],
                [i \in 1..n |-> OrderRow(i)],
                TopFacts(s),
                <<DepartmentRow(1), DepartmentRow(2)>>) :
        s \in UNION {Growth(k) : k \in 0..n}}

---------------------------------------------------------------------------
(* load_data, lines 25-33 *)

\* the order in which load_data reads the tables (lines 28-31)
ReadOrder == <<"products", "orders", "order_products__prior", "departments">>

\* sqlite3.connect (line 27) creates an empty database where there is no file
Connect(d) == IF d.file = "missing" THEN [file |-> "ok", tables |-> <<>>] ELSE d

\* the exception load_data ends in, None when it returns
LoadError(d) ==
    CASE d.file = "unreadable" -> "OperationalError"
      [] d.file = "corrupt" -> "DatabaseError"
      [] \E i \in 1..4 : ReadOrder[i] \notin DOMAIN Connect(d).tables
            -> "DatabaseError"
      [] OTHER -> None

\* the value load_data returns (line 33)
load_data(d) ==
    <<d.tables["products"], d.tables["orders"],
      d.tables["order_products__prior"], d.tables["departments"]>>

---------------------------------------------------------------------------
(* prepare_merged, lines 40-45 *)

\* a join that keeps one row per row of the right table: the first left row
\* with its key (a lookup that takes the left key to be unique)
MergeOnePerKey(left, right, on) ==
    FlatMap(LAMBDA r :
                LET ms == SelectSeq(left, LAMBDA l : l[on] = r[on])
                IN  IF ms = <<>> THEN <<>> ELSE <<Head(ms) @@ r>>,
            right)

\* left.merge(right, on=on): the inner join, in the order of the left rows
Merge(left, right, on) ==
    FlatMap(LAMBDA l :
                FlatMap(LAMBDA r : IF r[on] = l[on] THEN <<l @@ r>> ELSE <<>>,
                        right),
            left)

\* left.merge(right, on=on, how="left"): rows without a match are kept,
\* with the columns of the right table missing
MergeLeft(left, right, on, missing) ==
    FlatMap(LAMBDA l :
                LET ms == SelectSeq(right, LAMBDA r : r[on] = l[on])
                IN  IF ms = <<>> THEN <<l @@ missing>>
                    ELSE [i \in 1..Len(ms) |-> l @@ ms[i]],
            left)

\* prepare_merged with the departments joined by a left join
prepare_merged_left(p, o, op, d) ==
    MergeLeft(Merge(Merge(op, p, "product_id"), o, "order_id"), d,
              "department_id", [department |-> None])

prepare_merged(p, o, op, d) ==
    Merge(Merge(Merge(op, p, "product_id"), o, "order_id"), d, "department_id")

---------------------------------------------------------------------------
(* filter_data, lines 57-59 *)

\* Series.between(lo, hi, inclusive="left"): the upper end excluded
between_left(x, lo, hi) == lo <= x /\ x < hi

\* Series.between(lo, hi): inclusive at both ends
between(x, lo, hi) == lo <= x /\ x <= hi

\* filter_data without the department condition
filter_data_any_dept(m, dept, hr) ==
    SelectSeq(m, LAMBDA r : r.order_hour_of_day >= hr[1]
                            /\ r.order_hour_of_day <= hr[2])

filter_data(m, dept, hr) ==
    SelectSeq(m, LAMBDA r : r.department = dept
                            /\ between(r.order_hour_of_day, hr[1], hr[2]))

---------------------------------------------------------------------------
(* pandas operations of the metrics and the tabs, lines 63-122 *)

\* the values of column c, in row order
Column(t, c) == [i \in 1..Len(t) |-> t[i][c]]

\* Series.unique(): the distinct values in the order of first appearance
unique(s) ==
    LET keep == {i \in 1..Len(s) : \A j \in 1..(i - 1) : s[j] # s[i]}
        RECURSIVE pick(_)
        pick(i) == IF i > Len(s) THEN <<>>
                   ELSE (IF i \in keep THEN <<s[i]>> ELSE <<>>) \o pick(i + 1)
    IN  pick(1)

\* Series.nunique()
nunique(s) == Cardinality(Range(s))

\* the number of positions of s holding x
CountOf(s, x) == Cardinality({i \in 1..Len(s) : s[i] = x})

\* a stable sort into descending order: x goes after the elements that are
\* at least x (ge), so equal elements keep the order they arrive in
RECURSIVE InsertDesc(_, _, _)
InsertDesc(ge(_, _), s, x) ==
    IF s = <<>> THEN <<x>>
    ELSE IF ge(Head(s), x) THEN <<Head(s)>> \o InsertDesc(ge, Tail(s), x)
    ELSE <<x>> \o s

RECURSIVE StableDesc(_, _)
StableDesc(ge(_, _), s) ==
    IF s = <<>> THEN <<>>
    ELSE InsertDesc(ge, StableDesc(ge, SubSeq(s, 1, Len(s) - 1)), s[Len(s)])

Reverse(s) == [i \in 1..Len(s) |-> s[Len(s) + 1 - i]]

\* Series.sort_values(ascending=False): the default sort (quicksort) is not
\* stable, so the order of equal keys is the build's: kept as they arrive,
\* or reversed
TieOrders == {"kept", "reversed"}
SortDesc(ge(_, _), s) ==
    StableDesc(ge, IF ties = "kept" THEN s ELSE Reverse(s))

\* the integers of S in ascending order
RECURSIVE Ascending(_)
Ascending(S) ==
    IF S = {} THEN <<>>
    ELSE LET m == CHOOSE x \in S : \A y \in S : x <= y
         IN  <<m>> \o Ascending(S \ {m})

\* the department names in Python's string order
DeptSorted == <<"dairy", "produce">>

\* sorted(names), line 53
sorted(names) == SelectSeq(DeptSorted, LAMBDA d : d \in Range(names))

\* Series.value_counts(): a count per distinct value in the order of first
\* appearance, then sorted by sort_values(ascending=False)
value_counts(s) ==
    LET u == unique(s)
    IN  SortDesc(LAMBDA a, b : a.count >= b.count,
                 [i \in 1..Len(u) |-> [value |-> u[i], count |-> CountOf(s, u[i])]])

\* Series.tail(n): the last n entries
tail(s, n) == SubSeq(s, Len(s) - Min(n, Len(s)) + 1, Len(s))

\* Series.head(n)
head(s, n) == SubSeq(s, 1, Min(n, Len(s)))

\* Series.idxmax(): the label of the first maximum of a non-empty series
idxmax(vc) ==
    vc[CHOOSE i \in 1..Len(vc) :
          /\ \A j \in 1..Len(vc) : vc[j].count <= vc[i].count
          /\ \A j \in 1..(i - 1) : vc[j].count < vc[i].count].value

\* df.groupby('order_id')['product_id'].count(): rows per order, by order_id
basket_sizes(df) ==
    LET ids == Ascending(Range(Column(df, "order_id")))
    IN  [i \in 1..Len(ids) |-> CountOf(Column(df, "order_id"), ids[i])]

RECURSIVE Sum(_)
Sum(s) == IF s = <<>> THEN 0 ELSE Head(s) + Sum(Tail(s))

\* Series.mean(): NaN for an empty series, else the quotient total / n
mean(s) == [nan |-> s = <<>>, total |-> Sum(s), n |-> Len(s)]

\* f"{x:.2f}": "nan", or x in hundredths, rounded half to even
format2f(m) ==
    IF m.nan THEN [nan |-> TRUE, hundredths |-> 0]
    ELSE LET q == (100 * m.total) \div m.n
             r == (100 * m.total) % m.n
         IN  [nan |-> FALSE,
              hundredths |-> IF 2 * r > m.n \/ (2 * r = m.n /\ q % 2 = 1)
                             THEN q + 1 ELSE q]

\* the rows of df with reordered == 1, lines 67 and 81
reordered_rows(df) == SelectSeq(df, LAMBDA r : r.reordered = 1)

\* line 81
top_products(df, n) ==
    head(value_counts(Column(reordered_rows(df), "product_name")), n)

\* sns.countplot(x=c, data=df): rows per value of c, values ascending
countplot(df, c) ==
    LET vals == Ascending(Range(Column(df, c)))
    IN  [i \in 1..Len(vals) |->
            [value |-> vals[i], count |-> CountOf(Column(df, c), vals[i])]]

\* df.groupby("department")["reordered"].mean().sort_values(ascending=False)
reorder_ratio(df) ==
    LET depts == sorted(Column(df, "department"))
        rows(d) == SelectSeq(df, LAMBDA r : r.department = d)
    IN  SortDesc(LAMBDA a, b : a.total * b.n >= b.total * a.n,
                 [i \in 1..Len(depts) |->
                    [department |-> depts[i],
                     total |-> Sum(Column(rows(depts[i]), "reordered")),
                     n |-> Len(rows(depts[i]))]])

---------------------------------------------------------------------------
(* The widgets, lines 51-54 *)

TopNMin == 5
TopNMax == 30
TopNDefault == 10
HourMin == 0
HourMax == 23

\* the slider positions the model tries
TopNSamples == {TopNMin, TopNMin + 1, TopNDefault}
HourRangeSamples == {<<HourMin, HourMax>>, <<9, 14>>, <<10, 15>>, <<10, 14>>}

\* st.selectbox: the selection kept from the last run while it is still an
\* option, else the first option, None when there is no option
selectbox(options, current) ==
    IF current \in Range(options) THEN current
    ELSE IF options = <<>> THEN None
    ELSE options[1]

---------------------------------------------------------------------------
(* st.cache_data: the key a call is stored under *)

load_key == <<>>
merge_key(p, o, op, d) == <<p, o, op, d>>
\* a key that leaves out the hour range
filter_key_no_hours(m, dept, hr) == <<m, dept>>

filter_key(m, dept, hr) == <<m, dept, hr>>

---------------------------------------------------------------------------
(* The state after construction: a new session about to run the script *)

InitFrom(sources, orders_of_ties) ==
    /\ db \in sources
    /\ ties \in orders_of_ties
    /\ load_cache = <<>> /\ merge_cache = <<>> /\ filter_cache = <<>>
    /\ products = <<>> /\ orders = <<>> /\ order_products = <<>>
    /\ departments = <<>> /\ merged = <<>> /\ filtered_df = <<>>
    /\ top_n = TopNDefault
    /\ selected_dept = None
    /\ hour_range = <<HourMin, HourMax>>
    /\ dept_options = <<>>
    /\ out = <<>>
    /\ exception = None
    /\ pc = "load"
    /\ runs = 1

Init == InitFrom(SessionSources(MaxRows), TieOrders)

---------------------------------------------------------------------------
(* One run of the script *)

\* load_data with its exceptions swallowed: the tables that could not be
\* read are left empty and the script goes on
LoadDataSwallowed ==
    /\ pc = "load"
    /\ UNCHANGED ties
    /\ pc' = "merge"
    /\ LET t == [n \in TableNames |->
                    IF db.file = "ok" /\ n \in DOMAIN db.tables
                    THEN db.tables[n] ELSE <<>>]
       IN  /\ products' = t["products"]
           /\ orders' = t["orders"]
           /\ order_products' = t["order_products__prior"]
           /\ departments' = t["departments"]
    /\ UNCHANGED <<db, load_cache, exception, merge_cache, filter_cache,
                   merged, filtered_df, top_n, selected_dept, hour_range,
                   dept_options, out, runs>>

\* line 36: products, orders, order_products, departments = load_data()
LoadData ==
    /\ pc = "load"
    /\ UNCHANGED ties
    /\ IF load_key \in DOMAIN load_cache
       THEN /\ products' = load_cache[load_key][1]
            /\ orders' = load_cache[load_key][2]
            /\ order_products' = load_cache[load_key][3]
            /\ departments' = load_cache[load_key][4]
            /\ pc' = "merge"
            /\ UNCHANGED <<db, load_cache, exception>>
       ELSE IF LoadError(db) = None
       THEN /\ products' = load_data(db)[1]
            /\ orders' = load_data(db)[2]
            /\ order_products' = load_data(db)[3]
            /\ departments' = load_data(db)[4]
            /\ load_cache' = (load_key :> load_data(db)) @@ load_cache
            /\ pc' = "merge"
            /\ UNCHANGED <<db, exception>>
       ELSE /\ exception' = LoadError(db)
            /\ db' = Connect(db)
            /\ pc' = "failed"
            /\ UNCHANGED <<load_cache, products, orders, order_products,
                           departments>>
    /\ UNCHANGED <<merge_cache, filter_cache, merged, filtered_df, top_n,
                   selected_dept, hour_range, dept_options, out, runs>>

\* line 47: merged = prepare_merged(products, orders, order_products, departments)
PrepareMerged ==
    /\ pc = "merge"
    /\ UNCHANGED ties
    /\ LET key == merge_key(products, orders, order_products, departments)
       IN  IF key \in DOMAIN merge_cache
           THEN /\ merged' = merge_cache[key]
                /\ UNCHANGED merge_cache
           ELSE /\ merged' = prepare_merged(products, orders, order_products,
                                            departments)
                /\ merge_cache' = (key :> merged') @@ merge_cache
    /\ pc' = "sidebar"
    /\ UNCHANGED <<db, load_cache, filter_cache, products, orders,
                   order_products, departments, filtered_df, top_n,
                   selected_dept, hour_range, dept_options, out, exception,
                   runs>>

\* lines 50-54: the sidebar widgets return their current values
Sidebar ==
    /\ pc = "sidebar"
    /\ UNCHANGED ties
    /\ dept_options' = sorted(unique(Column(merged, "department")))
    /\ selected_dept' = selectbox(dept_options', selected_dept)
    /\ pc' = "filter"
    /\ UNCHANGED <<db, load_cache, merge_cache, filter_cache, products, orders,
                   order_products, departments, merged, filtered_df, top_n,
                   hour_range, out, exception, runs>>

\* line 61: filtered_df = filter_data(merged, selected_dept, hour_range)
FilterData ==
    /\ pc = "filter"
    /\ UNCHANGED ties
    /\ LET key == filter_key(merged, selected_dept, hour_range)
       IN  IF key \in DOMAIN filter_cache
           THEN /\ filtered_df' = filter_cache[key]
                /\ UNCHANGED filter_cache
           ELSE /\ filtered_df' = filter_data(merged, selected_dept, hour_range)
                /\ filter_cache' = (key :> filtered_df') @@ filter_cache
    /\ pc' = "metrics"
    /\ UNCHANGED <<db, load_cache, merge_cache, products, orders,
                   order_products, departments, merged, top_n, selected_dept,
                   hour_range, dept_options, out, exception, runs>>

\* lines 64-66: the two metrics rendered before top_product is computed
first_metrics(df) ==
    ("Total Orders" :> nunique(Column(df, "order_id")))
    @@ ("Avg. Basket Size" :> format2f(mean(basket_sizes(df))))

\* line 67, for a subset with a reordered row
top_product(df) ==
    idxmax(value_counts(Column(reordered_rows(df), "product_name")))

\* lines 64-68: idxmax of an empty series raises ValueError at line 67
Metrics ==
    /\ pc = "metrics"
    /\ UNCHANGED ties
    /\ IF reordered_rows(filtered_df) = <<>>
       THEN /\ out' = first_metrics(filtered_df)
            /\ exception' = "ValueError"
            /\ pc' = "crashed"
       ELSE /\ out' = first_metrics(filtered_df)
                      @@ ("Top Reordered Product" :> top_product(filtered_df))
            /\ pc' = "tabs"
            /\ UNCHANGED exception
    /\ UNCHANGED <<db, load_cache, merge_cache, filter_cache, products, orders,
                   order_products, departments, merged, filtered_df, top_n,
                   selected_dept, hour_range, dept_options, runs>>

\* lines 79-122: what the five tabs plot
tabs(df, n) ==
    ("Top Reordered Products" :> top_products(df, n))
    @@ ("Basket Size Distribution" :> basket_sizes(df))
    @@ ("Orders by Hour of Day" :> countplot(df, "order_hour_of_day"))
    @@ ("Orders by Day of Week" :> countplot(df, "order_dow"))
    @@ ("Reorder Ratio by Department" :> reorder_ratio(df))

\* lines 71-125: the five tabs and the caption
Tabs ==
    /\ pc = "tabs"
    /\ UNCHANGED ties
    /\ out' = out @@ tabs(filtered_df, top_n) @@ ("caption" :> "Page loaded")
    /\ pc' = "done"
    /\ UNCHANGED <<db, load_cache, merge_cache, filter_cache, products, orders,
                   order_products, departments, merged, filtered_df, top_n,
                   selected_dept, hour_range, dept_options, exception, runs>>

---------------------------------------------------------------------------
(* Interactions: each starts a new run of the script from its first line *)

\* a rerun starts with a new namespace and an empty page
StartRun ==
    /\ runs < MaxRuns
    /\ UNCHANGED ties
    /\ runs' = runs + 1
    /\ pc' = "load"
    /\ out' = <<>>
    /\ exception' = None
    /\ products' = <<>> /\ orders' = <<>> /\ order_products' = <<>>
    /\ departments' = <<>> /\ merged' = <<>> /\ filtered_df' = <<>>
    /\ UNCHANGED <<db, load_cache, merge_cache, filter_cache, dept_options>>

\* the sidebar is on the page once line 54 has run
SidebarShown == pc \in {"done", "crashed"}

\* line 51: the Top N slider is moved
ChangeTopN ==
    /\ SidebarShown
    /\ \E n \in TopNSamples \ {top_n} : top_n' = n
    /\ StartRun
    /\ UNCHANGED <<selected_dept, hour_range>>

\* line 53: another department is selected
ChangeDept ==
    /\ SidebarShown
    /\ \E d \in Range(dept_options) \ {selected_dept} : selected_dept' = d
    /\ StartRun
    /\ UNCHANGED <<top_n, hour_range>>

\* line 54: the hour range slider is moved
ChangeHours ==
    /\ SidebarShown
    /\ \E hr \in HourRangeSamples \ {hour_range} : hour_range' = hr
    /\ StartRun
    /\ UNCHANGED <<top_n, selected_dept>>

\* the page is reloaded after a run that ended in a load failure
Rerun ==
    /\ pc = "failed"
    /\ StartRun
    /\ UNCHANGED <<top_n, selected_dept, hour_range>>

Next ==
    \/ LoadData \/ PrepareMerged \/ Sidebar \/ FilterData \/ Metrics \/ Tabs
    \/ ChangeTopN \/ ChangeDept \/ ChangeHours \/ Rerun

Spec == Init /\ [][Next]_vars

\* The join specification: load_data and prepare_merged over JoinSources
InitJoin == InitFrom(JoinSources(MaxFactRows, MaxDimRows), {"kept"})
NextJoin == LoadData \/ PrepareMerged
SpecJoin == InitJoin /\ [][NextJoin]_vars

\* The top-N specification: runs of the script over TopSources in which
\* only the Top N slider is moved
InitTopN == InitFrom(TopSources(MaxTopRows), TieOrders)
NextTopN ==
    \/ LoadData \/ PrepareMerged \/ Sidebar \/ FilterData \/ Metrics \/ Tabs
    \/ ChangeTopN
SpecTopN == InitTopN /\ [][NextTopN]_vars

---------------------------------------------------------------------------
(* Properties of prepare_merged *)

Keys(t, c) == Range(Column(t, c))

\* every foreign key has a row in the table it refers to
RefIntegrity ==
    /\ Keys(order_products, "product_id") \subseteq Keys(products, "product_id")
    /\ Keys(order_products, "order_id") \subseteq Keys(orders, "order_id")
    /\ Keys(products, "department_id") \subseteq Keys(departments, "department_id")

\* no key appears in two rows of its table
UniqueKeys ==
    /\ Cardinality(Keys(products, "product_id")) = Len(products)
    /\ Cardinality(Keys(orders, "order_id")) = Len(orders)
    /\ Cardinality(Keys(departments, "department_id")) = Len(departments)

\* prepare_merged has returned in this run
Merged == pc = "sidebar"

\* C4: with referential integrity and unique keys in products, orders and
\* departments, prepare_merged yields exactly one merged row per
\* order_products row, in the same order: the row counts are equal.
JoinCardinality ==
    (Merged /\ RefIntegrity /\ UniqueKeys) =>
        /\ Len(merged) = Len(order_products)
        /\ \A i \in 1..Len(merged) :
              FactRow(merged[i].order_id, merged[i].product_id,
                      merged[i].reordered) = order_products[i]

\* two order_products rows of one product, joined under integrity
JoinCardinalityWitness ==
    /\ Merged /\ RefIntegrity /\ UniqueKeys
    /\ Len(products) = 2 /\ Len(orders) = 2 /\ Len(order_products) = 2
    /\ order_products[1].product_id = order_products[2].product_id
    /\ Len(merged) = 2

\* the same rows, each the same number of times
SameRows(a, b) ==
    \A x \in Range(a) \cup Range(b) : CountOf(a, x) = CountOf(b, x)

\* the joins applied in the order orders, products, departments
MergedOrdersFirst ==
    Merge(Merge(Merge(order_products, orders, "order_id"),
                products, "product_id"),
          departments, "department_id")

\* the joins applied in the order products, departments, orders
MergedOrdersLast ==
    Merge(Merge(Merge(order_products, products, "product_id"),
                departments, "department_id"),
          orders, "order_id")

\* C9: every order of the three inner joins in which the join column is
\* available yields the same collection of merged rows as prepare_merged,
\* also with orphan foreign keys and repeated keys.
JoinOrderIrrelevant ==
    Merged => /\ SameRows(merged, MergedOrdersFirst)
              /\ SameRows(merged, MergedOrdersLast)

\* an orphan product key, a repeated order key, and rows that survive
JoinOrderWitness ==
    /\ Merged
    /\ ~(Keys(order_products, "product_id") \subseteq Keys(products, "product_id"))
    /\ Cardinality(Keys(orders, "order_id")) < Len(orders)
    /\ Len(merged) = 2
    /\ Len(order_products) = 2

---------------------------------------------------------------------------
(* Properties of filter_data *)

\* filter_data has returned in this run
Filtered == pc \in {"metrics", "tabs", "done", "crashed"}

InSelection(r) ==
    /\ r.department = selected_dept
    /\ r.order_hour_of_day \in hour_range[1]..hour_range[2]

\* C2: with 0 <= lo <= hi <= 23, filter_data returns exactly the rows of
\* the merged table with department == name and lo <= hour <= hi: hours lo
\* and hi are included, hours lo-1 and hi+1 and other departments are
\* excluded, no matching row is left out or duplicated.
FilterExact ==
    Filtered =>
        /\ HourMin <= hour_range[1] /\ hour_range[1] <= hour_range[2]
        /\ hour_range[2] <= HourMax
        /\ \A r \in Range(merged) \cup Range(filtered_df) :
              CountOf(filtered_df, r) =
                  IF InSelection(r) THEN CountOf(merged, r) ELSE 0
        /\ \A i \in 1..Len(merged) :
              LET h == merged[i].order_hour_of_day
                  kept == merged[i] \in Range(filtered_df)
              IN  /\ merged[i].department # selected_dept => ~kept
                  /\ (merged[i].department = selected_dept
                      /\ h \in {hour_range[1], hour_range[2]}) => kept
                  /\ h \in {hour_range[1] - 1, hour_range[2] + 1} => ~kept

\* range [9, 14] over rows of the selected department at hour 9 (lo, kept)
\* and hour 15 (hi + 1, dropped) and a row of another department (dropped)
FilterExactWitness ==
    /\ pc = "metrics"
    /\ hour_range = <<9, 14>>
    /\ \E i, j, k \in 1..Len(merged) :
          /\ merged[i].department = selected_dept
          /\ merged[i].order_hour_of_day = 9
          /\ merged[j].department = selected_dept
          /\ merged[j].order_hour_of_day = 15
          /\ merged[k].department # selected_dept
          /\ filtered_df = <<merged[i]>>

---------------------------------------------------------------------------
(* Properties of a run of the script *)

\* the run has ended, by reaching line 125 or by an exception after line 54
Ended == pc \in {"done", "crashed"}

MetricLabels == {"Total Orders", "Avg. Basket Size", "Top Reordered Product"}
TabLabels ==
    {"Top Reordered Products", "Basket Size Distribution",
     "Orders by Hour of Day", "Orders by Day of Week",
     "Reorder Ratio by Department"}

\* C1: when the filtered subset has zero rows the run completes without an
\* exception: Total Orders shows 0, and the average basket size, the top
\* reordered product, the top-N products and the reorder ratio end in a
\* well-defined empty state, no NaN reaching the output.
EmptySelectionSafe ==
    (Ended /\ filtered_df = <<>>) =>
        /\ exception = None
        /\ pc = "done"
        /\ MetricLabels \cup TabLabels \subseteq DOMAIN out
        /\ out["Total Orders"] = 0
        /\ ~out["Avg. Basket Size"].nan
        /\ out["Top Reordered Products"] = <<>>

\* C3: the Reorder Ratio by Department view is computed over the unfiltered
\* merged table: one entry per department of the merged table, each the
\* mean of the reordered flag over all merged rows of that department.
ReorderRatioUnfiltered ==
    pc = "done" =>
        /\ out["Reorder Ratio by Department"] = reorder_ratio(merged)
        /\ {e.department : e \in Range(out["Reorder Ratio by Department"])}
               = Range(Column(merged, "department"))

\* C5: when the filtered subset has no row with reordered == 1, the top
\* reordered product ends in an empty state that is handled, and the other
\* metrics and the five tabs are still rendered in that run.
NoReorderedHandled ==
    (Ended /\ reordered_rows(filtered_df) = <<>>) =>
        /\ pc = "done"
        /\ {"Total Orders", "Avg. Basket Size"} \cup TabLabels
               \subseteq DOMAIN out

\* C6: on the example tables, department produce and hours [0, 23] give
\* Total Orders = 2, Average Basket Size = 1.00, Top Reordered Product =
\* Bananas.
EndToEndExample ==
    (db = Fixture /\ pc = "done" /\ selected_dept = "produce"
        /\ hour_range = <<0, 23>>) =>
        /\ out["Total Orders"] = 2
        /\ out["Avg. Basket Size"] = [nan |-> FALSE, hundredths |-> 100]
        /\ out["Top Reordered Product"] = "Bananas"

\* the example run has rendered its page
EndToEndWitness ==
    /\ db = Fixture /\ pc = "done" /\ selected_dept = "produce"
    /\ hour_range = <<0, 23>>
    /\ Len(merged) = 3 /\ Len(filtered_df) = 2

---------------------------------------------------------------------------
(* Properties of load_data *)

\* the source is missing, unreadable or lacks one of the four tables
Broken(d) == d.file # "ok" \/ ~(TableNames \subseteq DOMAIN d.tables)

\* C8: load_data returns all four tables, or the run ends in a load failure
\* in which no table is returned or cached and no later stage has run.
LoadAllOrNothing ==
    /\ Broken(db) =>
          /\ pc \in {"load", "failed"}
          /\ pc = "failed" => exception \in {"OperationalError", "DatabaseError"}
          /\ load_cache = <<>> /\ merge_cache = <<>> /\ filter_cache = <<>>
          /\ products = <<>> /\ orders = <<>> /\ order_products = <<>>
          /\ departments = <<>> /\ merged = <<>> /\ filtered_df = <<>>
          /\ out = <<>>
    /\ (~Broken(db) /\ pc # "load") =>
          /\ pc # "failed"
          /\ products = db.tables["products"]
          /\ orders = db.tables["orders"]
          /\ order_products = db.tables["order_products__prior"]
          /\ departments = db.tables["departments"]
          /\ load_cache[load_key] =
                <<products, orders, order_products, departments>>

\* a database lacking the departments table has failed to load twice
LoadFailureWitness ==
    /\ pc = "failed" /\ runs = 2
    /\ db.file = "ok"
    /\ DOMAIN db.tables = TableNames \ {"departments"}
    /\ exception = "DatabaseError"

---------------------------------------------------------------------------
(* Properties of the memoized reruns *)

\* the page and the exception of a run on subset df with Top N = n
page(df, n) ==
    IF reordered_rows(df) = <<>> THEN first_metrics(df)
    ELSE first_metrics(df) @@ ("Top Reordered Product" :> top_product(df))
         @@ tabs(df, n) @@ ("caption" :> "Page loaded")

\* C10: after any sequence of sidebar interactions the loaded tables and
\* the merged table are those of the data source, and the filtered subset
\* and everything displayed are what a run without any cache computes for
\* the current department, hour range and top N.
RerunsMatchFirstRun ==
    Ended =>
        LET t == load_data(db)
            m == prepare_merged(t[1], t[2], t[3], t[4])
            f == filter_data(m, selected_dept, hour_range)
        IN  /\ <<products, orders, order_products, departments>> = t
            /\ merged = m
            /\ selected_dept = selectbox(dept_options, selected_dept)
            /\ filtered_df = f
            /\ out = page(f, top_n)
            /\ exception = IF reordered_rows(f) = <<>> THEN "ValueError" ELSE None

\* the third run, back at the first selection, is served from the cache
RerunsWitness ==
    /\ pc = "done" /\ runs = 3
    /\ Cardinality(DOMAIN filter_cache) = 2
    /\ top_n = TopNDefault /\ hour_range = <<HourMin, HourMax>>
    /\ selected_dept = dept_options[1]
    /\ Len(filtered_df) = 2

---------------------------------------------------------------------------
(* Properties of the Top-N view *)

IsPrefix(a, b) == Len(a) <= Len(b) /\ a = SubSeq(b, 1, Len(a))

\* C7: for 5 <= k < 30 the Top-N result for N = k is a prefix of the result
\* for N = k + 1, counts non-increasing down the list, also with ties at
\* the truncation boundary.  The result for the slider's value is the one on
\* the page; for another k it is what line 81 computes from the same subset.
TopNPrefix ==
    pc = "done" =>
        LET counts == value_counts(Column(reordered_rows(filtered_df),
                                          "product_name"))
            result(k) == IF k = top_n THEN out["Top Reordered Products"]
                         ELSE head(counts, k)
        IN  \A k \in TopNMin..(TopNMax - 1) :
                LET lower == result(k)
                    upper == result(k + 1)
                IN  /\ IsPrefix(lower, upper)
                    /\ \A i \in 1..(Len(upper) - 1) :
                          upper[i].count >= upper[i + 1].count

\* Top 5 shown of more than five products, with a tie across the cut
TopNWitness ==
    /\ pc = "done" /\ top_n = TopNMin
    /\ Len(out["Top Reordered Products"]) = TopNMin
    /\ LET all == top_products(filtered_df, TopNMax)
       IN  /\ Len(all) > TopNMin
           /\ all[TopNMin].count = all[TopNMin + 1].count
           /\ all[1].count > all[TopNMin].count

====
